---------------------------- MODULE Spec2Model ----------------------------
(***************************************************************************)
(* Hybrid retrieval of rishabh2023/RAG-PROJECT: the BM25 lexical index,    *)
(* Reciprocal Rank Fusion, the HybridSearch orchestrator and the retrieval *)
(* service around them.                                                    *)
(*                                                                         *)
(* Three specifications share the module:                                  *)
(*   SpecFuse  reciprocal_rank_fusion applied to bounded input lists       *)
(*   SpecLex   one BM25LexicalIndex: build, persist, load, search          *)
(*   Spec      services/retrieval.py: register_chunks (statement by        *)
(*             statement) interleaved with retrieve calls                  *)
(*                                                                         *)
(* Python values: a list is a sequence, a tuple (id, score) is a pair      *)
(* <<id, score>>, a dict is a function on its key set, None is the string  *)
(* "None".  A fused score is an exact fraction [n |-> , d |-> ] with d > 0.*)
(***************************************************************************)
EXTENDS Integers, Sequences, FiniteSets, TLC

(***************************************************************************)
(* Bounds of the model                                                     *)
(***************************************************************************)
\* longest first (semantic) input list of a fusion
MaxSemLen == 3
\* longest second (lexical) input list of a fusion
MaxLexLen == 2
\* largest top_k requested
MaxTopK == 3
\* most chunks handed to one build
MaxChunks == 2
\* most chunks handed to one register_chunks call
MaxSvcChunks == 1

\* chunk ids
Id == {"x", "y", "z"}
\* requested top_k values: the code takes any int, so a negative one is drawn too
TopKs == (0 - 1) .. MaxTopK
\* smoothing constants drawn for a fusion; 60 is the default
DefaultKappa == 60
\* top_k of reciprocal_rank_fusion when the caller gives none
DefaultTopK == 10
Kappas == {1, DefaultKappa}

\* what a call came to: it raised, or it returned hits (a list; the empty
\* list for a call that returns None)
Raises == [raised |-> TRUE, hits |-> <<>>]
Returns(hits) == [raised |-> FALSE, hits |-> hits]

(***************************************************************************)
(* Python helpers                                                          *)
(***************************************************************************)
Min(a, b) == IF a <= b THEN a ELSE b
Max(a, b) == IF a >= b THEN a ELSE b

\* the empty dict
EmptyDict == [i \in {} |-> 0]

\* seq[:k] of Python: the first k elements, or all but the last -k when k < 0
Slice(seq, k) ==
    IF k >= 0 THEN SubSeq(seq, 1, Min(k, Len(seq)))
    ELSE SubSeq(seq, 1, Max(Len(seq) + k, 0))

\* sequences over S of length at most n
SeqsUpTo(S, n) == UNION {[1 .. m -> S] : m \in 0 .. n}

\* the duplicate-free sequences that hold every element of S
Orders(S) == {p \in [1 .. Cardinality(S) -> S] : \A i, j \in DOMAIN p : p[i] = p[j] => i = j}

\* exact fractions
Frac(n, d) == [n |-> n, d |-> d]
FracAdd(a, b) == Frac(a.n * b.d + b.n * a.d, a.d * b.d)
FracEq(a, b) == a.n * b.d = b.n * a.d
FracLess(a, b) == a.n * b.d < b.n * a.d

(***************************************************************************)
(* reciprocal_rank_fusion                                                  *)
(***************************************************************************)
\* {doc_id: rank for rank, (doc_id, _) in enumerate(L, start=1)}, the first n
\* entries of L taken in order: a later entry with the same id overwrites
RECURSIVE RankMapUpTo(_, _)
RankMapUpTo(L, n) ==
    IF n = 0 THEN EmptyDict
    ELSE LET prev == RankMapUpTo(L, n - 1)
             doc_id == L[n][1]
         IN  [i \in (DOMAIN prev) \cup {doc_id} |-> IF i = doc_id THEN n ELSE prev[i]]

RankMapZeroBased(L) ==
    LET m == RankMapUpTo(L, Len(L)) IN [i \in DOMAIN m |-> m[i] - 1]

RankMapFromEnd(L) ==
    LET m == RankMapUpTo(L, Len(L)) IN [i \in DOMAIN m |-> Len(L) + 1 - m[i]]

RankMap(L) == RankMapUpTo(L, Len(L))

RECURSIVE EntryMapsUpTo(_, _)
EntryMapsUpTo(lists, n) ==
    IF n = 0 THEN <<>>
    ELSE EntryMapsUpTo(lists, n - 1)
             \o [r \in 1 .. Len(lists[n]) |-> [i \in {lists[n][r][1]} |-> r]]

RankMapsOnePerEntry(lists) == EntryMapsUpTo(lists, Len(lists))

\* rank_maps: one rank map per input list
RankMaps(lists) == [l \in DOMAIN lists |-> RankMap(lists[l])]

AllIdsEveryKnownId(lists) == Id

\* all_ids: the set of the ids of every list
AllIds(lists) == UNION {{lists[l][r][1] : r \in DOMAIN lists[l]} : l \in DOMAIN lists}

\* the inner loop over rank_maps: score += 1.0 / (kappa + r) for the first n maps
RECURSIVE FusedScoreUpTo(_, _, _, _)
FusedScoreUpTo(rank_maps, doc_id, kappa, n) ==
    IF n = 0 THEN Frac(0, 1)
    ELSE LET score == FusedScoreUpTo(rank_maps, doc_id, kappa, n - 1)
         IN  IF doc_id \in DOMAIN rank_maps[n]
             THEN FracAdd(score, Frac(1, kappa + rank_maps[n][doc_id]))
             ELSE score

\* fused: id -> score, for every id of all_ids
Fused(lists, kappa) ==
    LET rank_maps == RankMaps(lists)
    IN  [doc_id \in AllIds(lists) |-> FusedScoreUpTo(rank_maps, doc_id, kappa, Len(rank_maps))]

\* the iteration order of a set of str: the interpreter's hash order of the
\* process, restricted to the members of the set
SetIteration(S, order) == SelectSeq(order, LAMBDA i : i \in S)

\* one step of a stable descending sort of <<item, key>> pairs: e goes behind
\* every pair whose key is greater or equal (equal keys keep their order)
RECURSIVE InsertDesc(_, _)
InsertDesc(sorted, e) ==
    IF sorted = <<>> THEN <<e>>
    ELSE IF FracLess(Head(sorted)[2], e[2]) THEN <<e>> \o sorted
    ELSE <<Head(sorted)>> \o InsertDesc(Tail(sorted), e)

\* the stable descending sort of the first n pairs of seq
RECURSIVE SortedDescUpTo(_, _)
SortedDescUpTo(seq, n) ==
    IF n = 0 THEN <<>>
    ELSE InsertDesc(SortedDescUpTo(seq, n - 1), seq[n])

\* sorted(pairs, key=lambda kv: kv[1], reverse=True): stable, so pairs with
\* equal keys stay in their original order
SortedDesc(seq) == SortedDescUpTo(seq, Len(seq))

\* fused.items() in insertion order, which is the iteration order of all_ids
FusedItems(lists, kappa, order) ==
    LET fused == Fused(lists, kappa)
        ids == SetIteration(DOMAIN fused, order)
    IN  [j \in DOMAIN ids |-> <<ids[j], fused[ids[j]]>>]

\* sorted(fused.items(), key=lambda kv: kv[1], reverse=True)[:top_k]
reciprocal_rank_fusion(lists, kappa, top_k, order) ==
    Slice(SortedDesc(FusedItems(lists, kappa, order)), top_k)

\* the ids of a ranked list, in order
IdsOf(hits) == [j \in DOMAIN hits |-> hits[j][1]]

\* raw scores of the rankers, best first; the fusion never reads them
SemRawScore(r) == IF r = 1 THEN 10 ELSE IF r = 2 THEN 5 ELSE 1
LexRawScore(r) == IF r = 1 THEN 9 ELSE 3

(***************************************************************************)
(* Texts, chunks and the tokenizer                                         *)
(***************************************************************************)
\* a text is a sequence of characters; " " stands for every non-word character
WordChars == {"a", "b", "A", "B"}

\* str.lower() on one character
Lower(c) == IF c = "A" THEN "a" ELSE IF c = "B" THEN "b" ELSE c

\* re.findall(r"\w+", ...): the maximal runs of word characters of rest, cur
\* being the run under way and acc the runs found so far
RECURSIVE FindAllWords(_, _, _)
FindAllWords(rest, cur, acc) ==
    IF rest = <<>> THEN (IF cur = <<>> THEN acc ELSE Append(acc, cur))
    ELSE IF Head(rest) \in WordChars
         THEN FindAllWords(Tail(rest), Append(cur, Head(rest)), acc)
         ELSE FindAllWords(Tail(rest), <<>>, IF cur = <<>> THEN acc ELSE Append(acc, cur))

TokenizeNoLower(text) == FindAllWords(text, <<>>, <<>>)

\* _tokenize(text): lower-case, then the runs of word characters
Tokenize(text) == FindAllWords([i \in DOMAIN text |-> Lower(text[i])], <<>>, <<>>)

\* a metadata dict is the set of its <<key, value>> items
EmptyMeta == {}
BankMeta == {<<"bank", "Axis Bank">>}

\* the chunk dicts callers hand to build / register_chunks: two chunks share
\* the id x, one has no word character, one has no "metadata" key
ChunkDicts ==
    { [id |-> "x", text |-> <<"a", " ", "B">>, has_metadata |-> TRUE, metadata |-> BankMeta],
      [id |-> "y", text |-> <<"A">>, has_metadata |-> FALSE, metadata |-> EmptyMeta],
      [id |-> "x", text |-> <<" ">>, has_metadata |-> TRUE, metadata |-> EmptyMeta] }

ChunkLists == SeqsUpTo(ChunkDicts, MaxChunks)
\* the chunk lists given to register_chunks
SvcChunkLists == SeqsUpTo(ChunkDicts, MaxSvcChunks)

\* the queries: empty, one word, two words
Queries == {<<>>, <<"a">>, <<"b", " ", "A">>}

\* Chunk(id=c["id"], text=c["text"], metadata=c.get("metadata", {}))
Chunk(c) ==
    [id |-> c.id, text |-> c.text,
     metadata |-> IF c.has_metadata THEN c.metadata ELSE EmptyMeta]

(***************************************************************************)
(* BM25Okapi of rank_bm25, as far as the index uses it.  The library fits  *)
(* document frequencies over the corpus and scores a document by summing,  *)
(* over the query tokens, idf(token) * f(term frequency, document length). *)
(* Its initialisation divides by the corpus size and by the vocabulary     *)
(* size, so a corpus without documents or without tokens raises            *)
(* ZeroDivisionError.  The scores here keep the dependence on the corpus   *)
(* and the query (integer idf weight times term frequency); the logarithm  *)
(* and the length normalisation of the library are not reproduced.         *)
(***************************************************************************)
None == "None"

\* self.bm25 before any model is fitted
NoModel == [fitted |-> FALSE, corpus |-> <<>>]

\* how often token t occurs in the token sequence doc
TermFreq(doc, t) == Cardinality({j \in DOMAIN doc : doc[j] = t})

\* the number of documents of the corpus that hold t
DocFreq(corpus, t) == Cardinality({i \in DOMAIN corpus : TermFreq(corpus[i], t) > 0})

\* whether BM25Okapi(doc_tokens) raises ZeroDivisionError
BM25OkapiRaises(doc_tokens) ==
    doc_tokens = <<>> \/ \A i \in DOMAIN doc_tokens : doc_tokens[i] = <<>>

\* BM25Okapi(doc_tokens): the fitted model
BM25Okapi(doc_tokens) == [fitted |-> TRUE, corpus |-> doc_tokens]

\* idf.get(q) or 0
IdfWeight(corpus, t) ==
    IF DocFreq(corpus, t) = 0 THEN 0 ELSE Len(corpus) - DocFreq(corpus, t) + 1

\* the score of document i for the first n query tokens
RECURSIVE ScoreUpTo(_, _, _, _)
ScoreUpTo(corpus, i, q_tokens, n) ==
    IF n = 0 THEN 0
    ELSE ScoreUpTo(corpus, i, q_tokens, n - 1)
         + IdfWeight(corpus, q_tokens[n]) * TermFreq(corpus[i], q_tokens[n])

\* bm25.get_scores(q_tokens): one score per document of the fitted corpus
GetScores(bm25, q_tokens) ==
    [i \in DOMAIN bm25.corpus |-> Frac(ScoreUpTo(bm25.corpus, i, q_tokens, Len(q_tokens)), 1)]

(***************************************************************************)
(* BM25LexicalIndex                                                        *)
(***************************************************************************)
\* __init__: nothing built
FreshIndex == [bm25 |-> NoModel, doc_tokens |-> <<>>, chunks |-> <<>>, id_to_idx |-> EmptyDict]

\* {c.id: i for i, c in enumerate(chunks)}: 0-based, a repeated id keeps its
\* last index
RECURSIVE IdToIdxUpTo(_, _)
IdToIdxUpTo(chunks, n) ==
    IF n = 0 THEN EmptyDict
    ELSE LET prev == IdToIdxUpTo(chunks, n - 1)
             cid == chunks[n].id
         IN  [i \in (DOMAIN prev) \cup {cid} |-> IF i = cid THEN n - 1 ELSE prev[i]]

IdToIdx(chunks) == IdToIdxUpTo(chunks, Len(chunks))

\* pickle.dump({"chunks": self.chunks, "doc_tokens": self.doc_tokens}, f): the
\* Chunk objects are pickled as instances of hybrid_search.Chunk
NoFile == [exists |-> FALSE, cls |-> None, chunks |-> <<>>, doc_tokens |-> <<>>]
Snapshot(index) ==
    [exists |-> TRUE, cls |-> "hybrid_search.Chunk",
     chunks |-> index.chunks, doc_tokens |-> index.doc_tokens]

\* build(chunks, persist_path): the index and the file after the call, and
\* whether it returned.  BM25Okapi is constructed after chunks and doc_tokens
\* are assigned and before id_to_idx and the file are written, so when it
\* raises the index keeps its old bm25 and id_to_idx beside the new chunks.
BuildIndex(index, file, chunks) ==
    LET cs == [i \in DOMAIN chunks |-> Chunk(chunks[i])]
        toks == [i \in DOMAIN cs |-> Tokenize(cs[i].text)]
        built == [bm25 |-> BM25Okapi(toks), doc_tokens |-> toks, chunks |-> cs,
                  id_to_idx |-> IdToIdx(cs)]
    IN  IF BM25OkapiRaises(toks)
        THEN [index |-> [index EXCEPT !.chunks = cs, !.doc_tokens = toks],
              file |-> file, out |-> Raises]
        ELSE [index |-> built, file |-> Snapshot(built), out |-> Returns(<<>>)]

LoadIndexRetokenizedCaseSensitive(index, file) ==
    LET toks == [i \in DOMAIN file.chunks |-> TokenizeNoLower(file.chunks[i].text)]
    IN  IF ~file.exists THEN [index |-> index, out |-> Raises]
        ELSE [index |-> [bm25 |-> BM25Okapi(toks), doc_tokens |-> toks,
                         chunks |-> file.chunks, id_to_idx |-> IdToIdx(file.chunks)],
              out |-> Returns(<<>>)]

\* load(persist_path): the index after the call, and whether it returned;
\* open() raises when there is no file, and nothing has been assigned then
LoadIndex(index, file) ==
    IF ~file.exists THEN [index |-> index, out |-> Raises]
    ELSE IF BM25OkapiRaises(file.doc_tokens)
    THEN [index |-> [index EXCEPT !.chunks = file.chunks, !.doc_tokens = file.doc_tokens],
          out |-> Raises]
    ELSE [index |-> [bm25 |-> BM25Okapi(file.doc_tokens), doc_tokens |-> file.doc_tokens,
                     chunks |-> file.chunks, id_to_idx |-> IdToIdx(file.chunks)],
          out |-> Returns(<<>>)]

\* range(len(scores)) paired with the scores: 0-based indices
IndexedScores(scores) == [i \in DOMAIN scores |-> <<i - 1, scores[i]>>]

SortedIdxsAscendingThenReversed(scores) ==
    LET seq == IndexedScores(scores)
        rev == [j \in DOMAIN seq |-> seq[Len(seq) + 1 - j]]
    IN  SortedDesc(rev)

\* sorted(range(len(scores)), key=lambda i: scores[i], reverse=True)
SortedIdxs(scores) == SortedDesc(IndexedScores(scores))

\* search(query, top_k): [] without a model; else the top_k best indices
\* mapped to (chunks[i].id, scores[i]); chunks[i] raises IndexError when the
\* model was fitted over more documents than chunks now holds
LexSearch(index, query, top_k) ==
    IF ~index.bm25.fitted THEN Returns(<<>>)
    ELSE LET scores == GetScores(index.bm25, Tokenize(query))
             idxs == Slice(SortedIdxs(scores), top_k)
         IN  IF \E j \in DOMAIN idxs : idxs[j][1] + 1 > Len(index.chunks)
             THEN Raises
             ELSE Returns([j \in DOMAIN idxs |-> <<index.chunks[idxs[j][1] + 1].id, idxs[j][2]>>])

(***************************************************************************)
(* semantic_search (search/semantic_adapter.py).  The embedder and the     *)
(* vector database are outside the repository: env says whether the API    *)
(* key is set, whether the embedder was imported, whether the query call   *)
(* fails, and what the database ranks for the query (best first, distinct  *)
(* ids).  A query for k >= 1 matches returns the first k of that ranking;  *)
(* the database rejects k < 1.                                             *)
(***************************************************************************)
\* the rankings the vector database may hold for a query
VecRankings ==
    {s \in SeqsUpTo(Id, MaxSemLen) : \A i, j \in DOMAIN s : s[i] = s[j] => i = j}

Env(api_key, embedder, fails, ranking) ==
    [api_key |-> api_key, embedder |-> embedder, fails |-> fails, ranking |-> ranking]

Envs ==
    {Env(FALSE, TRUE, FALSE, <<>>), Env(TRUE, FALSE, FALSE, <<>>), Env(TRUE, TRUE, TRUE, <<>>)}
        \cup {Env(TRUE, TRUE, FALSE, r) : r \in VecRankings}

\* res.matches of index.query(vector=emb, top_k=top_k, ...) as (id, score)
VectorQuery(env, top_k) ==
    LET first == SubSeq(env.ranking, 1, Min(top_k, Len(env.ranking)))
    IN  [r \in DOMAIN first |-> <<first[r], Frac(SemRawScore(r), 1)>>]

\* semantic_search(query, top_k)
semantic_search(env, query, top_k) ==
    IF ~env.api_key THEN Returns(<<>>)
    ELSE IF ~env.embedder THEN Raises
    ELSE IF env.fails \/ top_k < 1 THEN Raises
    ELSE Returns(VectorQuery(env, top_k))

(***************************************************************************)
(* HybridSearch                                                            *)
(***************************************************************************)
\* pool sizes of the hybrid mode
SemPool == 20
LexPool == 50

Modes == {"semantic", "lexical", "hybrid"}

\* __init__: a fresh lexical index and an empty chunk_store
NewHybrid == [exists |-> TRUE, lex |-> FreshIndex, chunk_store |-> EmptyDict]
\* _HYBRID = None
NoHybrid == [exists |-> FALSE, lex |-> FreshIndex, chunk_store |-> EmptyDict]

\* {c["id"]: Chunk(...) for c in chunks}: a repeated id keeps its last chunk
RECURSIVE ChunkStoreUpTo(_, _)
ChunkStoreUpTo(chunks, n) ==
    IF n = 0 THEN EmptyDict
    ELSE LET prev == ChunkStoreUpTo(chunks, n - 1)
             cid == chunks[n].id
         IN  [i \in (DOMAIN prev) \cup {cid} |-> IF i = cid THEN Chunk(chunks[n]) ELSE prev[i]]

ChunkStore(chunks) == ChunkStoreUpTo(chunks, Len(chunks))

\* one record of the returned list
Record(cid, score, text, metadata) ==
    [id |-> cid, score |-> score, text |-> text, metadata |-> metadata]

RehydrateKnownOnly(chunk_store, ranked) ==
    LET known == SelectSeq(ranked, LAMBDA h : h[1] \in DOMAIN chunk_store)
    IN  [j \in DOMAIN known |->
            Record(known[j][1], known[j][2], chunk_store[known[j][1]].text,
                   chunk_store[known[j][1]].metadata)]

\* [{"id": cid, "score": s, "text": chunk_store.get(cid, Chunk(cid, "", {})).text,
\*   "metadata": chunk_store.get(cid, Chunk(cid, "", {})).metadata} for cid, s in ranked]
Rehydrate(chunk_store, ranked) ==
    [j \in DOMAIN ranked |->
        LET cid == ranked[j][1]
        IN  IF cid \in DOMAIN chunk_store
            THEN Record(cid, ranked[j][2], chunk_store[cid].text, chunk_store[cid].metadata)
            ELSE Record(cid, ranked[j][2], <<>>, EmptyMeta)]

\* what a search came to: it raised, or it returned hits built from ranked,
\* the ranking its mode produced
SearchRaises == [raised |-> TRUE, ranked |-> <<>>, hits |-> <<>>]
SearchReturns(ranked, hits) == [raised |-> FALSE, ranked |-> ranked, hits |-> hits]

\* HybridSearch.search(query, top_k, mode)
HybridSearch_search(hybrid, env, order, query, top_k, mode) ==
    IF mode = "semantic"
    THEN LET sem == semantic_search(env, query, top_k)
         IN  IF sem.raised THEN SearchRaises
             ELSE SearchReturns(sem.hits, Rehydrate(hybrid.chunk_store, sem.hits))
    ELSE IF mode = "lexical"
    THEN LET lex == LexSearch(hybrid.lex, query, top_k)
         IN  IF lex.raised THEN SearchRaises
             ELSE SearchReturns(lex.hits, Rehydrate(hybrid.chunk_store, lex.hits))
    ELSE LET sem == semantic_search(env, query, Max(top_k, SemPool))
             lex == LexSearch(hybrid.lex, query, Max(top_k, LexPool))
         IN  IF sem.raised \/ lex.raised THEN SearchRaises
             ELSE LET fused == reciprocal_rank_fusion(<<sem.hits, lex.hits>>, DefaultKappa,
                                                      top_k, order)
                  IN  SearchReturns(fused, Rehydrate(hybrid.chunk_store, fused))

(***************************************************************************)
(* services/retrieval.py                                                   *)
(***************************************************************************)
\* id_to_chunk = {c["id"]: c for c in _CHUNKS}, read through
\* .get(cid, {}).get("text", "") and .get(cid, {}).get("metadata", {})
FallbackStore(chunks) == ChunkStore(chunks)

\* retrieve(query, top_k, mode)
retrieve(chunks, hybrid, env, order, query, top_k, mode) ==
    IF query = <<>> THEN SearchReturns(<<>>, <<>>)
    ELSE IF ~hybrid.exists
    THEN LET sem == semantic_search(env, query, top_k)
         IN  IF sem.raised THEN SearchRaises
             ELSE SearchReturns(sem.hits, Rehydrate(FallbackStore(chunks), sem.hits))
    ELSE HybridSearch_search(hybrid, env, order, query, top_k, mode)

\* register_chunks(chunks), the whole call: _CHUNKS and a new HybridSearch
\* are assigned before the index is built, so a build that raises leaves
\* them behind with an empty index and an empty chunk_store
register_chunks(file, chunks) ==
    LET b == BuildIndex(FreshIndex, file, chunks)
    IN  IF b.out.raised
        THEN [chunks |-> chunks, file |-> b.file, raised |-> TRUE,
              hybrid |-> [exists |-> TRUE, lex |-> b.index, chunk_store |-> EmptyDict]]
        ELSE [chunks |-> chunks, file |-> b.file, raised |-> FALSE,
              hybrid |-> [exists |-> TRUE, lex |-> b.index, chunk_store |-> ChunkStore(chunks)]]

(***************************************************************************)
(* core/rag_engine.py: the engine's own BM25LexicalIndex, loaded from the   *)
(* snapshot file at start-up, and PineconeRAGEngine.retrieve.  The engine's *)
(* index keeps the chunks as the dicts of the file; its tokenizer, search   *)
(* and reciprocal_rank_fusion are copies of those of hybrid_search.py.      *)
(***************************************************************************)
\* a file that pickle.load cannot read
CorruptFile == [exists |-> TRUE, cls |-> "corrupt", chunks |-> <<>>, doc_tokens |-> <<>>]

\* a file in the schema the engine expects:
\* {"chunks": [{"id", "text", "metadata"}, ...], "doc_tokens": [[...], ...]}
DictSnapshot(chunks) ==
    [exists |-> TRUE, cls |-> "dict", chunks |-> chunks,
     doc_tokens |-> [i \in DOMAIN chunks |-> Tokenize(chunks[i].text)]]

\* what may lie at bm25_path when the engine starts: nothing, a damaged file,
\* a file written by register_chunks, a file in the engine's schema
EngineFiles ==
    {NoFile, CorruptFile}
        \cup {register_chunks(NoFile, cs).file : cs \in SvcChunkLists}
        \cup {DictSnapshot(cs) : cs \in SvcChunkLists}

\* BM25LexicalIndex.__init__ of the engine: nothing loaded
EngineFreshIndex ==
    [is_none |-> FALSE, bm25 |-> NoModel, chunks |-> <<>>, id_to_idx |-> EmptyDict]
\* self.lex = None
EngineNoIndex ==
    [is_none |-> TRUE, bm25 |-> NoModel, chunks |-> <<>>, id_to_idx |-> EmptyDict]

\* load(): pickle.load raises on a damaged file, BM25Okapi on a corpus without
\* a word, c["id"] on a chunk that is a hybrid_search.Chunk object and no dict
EngineLoadIndex(index, file) ==
    IF file.cls = "corrupt" THEN [index |-> index, out |-> Raises]
    ELSE IF BM25OkapiRaises(file.doc_tokens)
    THEN [index |-> [index EXCEPT !.chunks = file.chunks], out |-> Raises]
    ELSE IF file.cls # "dict" /\ file.chunks # <<>>
    THEN [index |-> [index EXCEPT !.chunks = file.chunks, !.bm25 = BM25Okapi(file.doc_tokens)],
          out |-> Raises]
    ELSE [index |-> [is_none |-> FALSE, bm25 |-> BM25Okapi(file.doc_tokens),
                     chunks |-> file.chunks, id_to_idx |-> IdToIdx(file.chunks)],
          out |-> Returns(<<>>)]

\* the engine object; before __init__ has returned there is none
NoEngine == [constructed |-> FALSE, lex |-> EngineNoIndex]

EngineInitLoadUncaught(keys_set, file) ==
    IF ~keys_set THEN [engine |-> NoEngine, raised |-> TRUE]
    ELSE IF ~file.exists
    THEN [engine |-> [constructed |-> TRUE, lex |-> EngineFreshIndex], raised |-> FALSE]
    ELSE LET r == EngineLoadIndex(EngineFreshIndex, file)
         IN  IF r.out.raised THEN [engine |-> NoEngine, raised |-> TRUE]
             ELSE [engine |-> [constructed |-> TRUE, lex |-> r.index], raised |-> FALSE]

\* PineconeRAGEngine.__init__: raises without the API keys; loads the file
\* when there is one, and goes on with self.lex = None when load raises
PineconeRAGEngine_init(keys_set, file) ==
    IF ~keys_set THEN [engine |-> NoEngine, raised |-> TRUE]
    ELSE IF ~file.exists
    THEN [engine |-> [constructed |-> TRUE, lex |-> EngineFreshIndex], raised |-> FALSE]
    ELSE LET r == EngineLoadIndex(EngineFreshIndex, file)
         IN  [engine |-> [constructed |-> TRUE,
                          lex |-> IF r.out.raised THEN EngineNoIndex ELSE r.index],
              raised |-> FALSE]

\* metadata dicts: meta.get(key, default), and "key" in meta
HasKey(meta, key) == \E kv \in meta : kv[1] = key
MetaGet(meta, key, default) ==
    IF HasKey(meta, key) THEN (CHOOSE kv \in meta : kv[1] = key)[2] ELSE default

\* the metadata the vector database stores with a vector: none, or the text
\* put there at insert time
VecText == <<"b">>
VecMetas == {EmptyMeta, {<<"text", VecText>>}}

\* _retrieve_semantic(query, top_k): (id, score, metadata) of the matches of
\* index.query(top_k=max(top_k, 20)); the engine has its own embedder
retrieve_semantic(env, vmeta, top_k) ==
    IF env.fails THEN Raises
    ELSE LET matches == VectorQuery(env, Max(top_k, SemPool))
         IN  Returns([r \in DOMAIN matches |-> <<matches[r][1], matches[r][2], vmeta>>])

\* lex.search of the engine's index
EngineLexSearch(index, query, top_k) == LexSearch(index, query, top_k)

\* the loop of _retrieve_lexical over the first n hits: ch = chunk_by_id(cid),
\* meta = ch.get("metadata", {}); meta["text"] = ch.get("text", "") when meta
\* has no "text".  meta is the dict the stored chunk holds, so the assignment
\* changes the stored chunk; a chunk without "metadata" gets a dict of its own.
RECURSIVE RetrieveLexicalUpTo(_, _, _)
RetrieveLexicalUpTo(index, hits, n) ==
    IF n = 0 THEN [index |-> index, out |-> <<>>]
    ELSE LET prev == RetrieveLexicalUpTo(index, hits, n - 1)
             cid == hits[n][1]
             i == prev.index.id_to_idx[cid] + 1
             ch == prev.index.chunks[i]
             meta == IF ch.has_metadata THEN ch.metadata ELSE EmptyMeta
             with_text == IF HasKey(meta, "text") THEN meta ELSE meta \cup {<<"text", ch.text>>}
         IN  [index |-> IF ch.has_metadata
                        THEN [prev.index EXCEPT !.chunks[i].metadata = with_text]
                        ELSE prev.index,
              out |-> Append(prev.out, <<cid, hits[n][2], with_text>>)]

\* _retrieve_lexical(query, top_k): the index after the call and the
\* (id, score, metadata) list
retrieve_lexical(index, query, top_k) ==
    IF index.is_none THEN [index |-> index, out |-> <<>>]
    ELSE LET hits == EngineLexSearch(index, query, Max(top_k, LexPool)).hits
         IN  RetrieveLexicalUpTo(index, hits, Len(hits))

\* meta_by_id: every semantic hit assigns its metadata, then every lexical
\* hit sets its own only for an id that has none yet (setdefault)
RECURSIVE MetaByIdSemUpTo(_, _)
MetaByIdSemUpTo(sem, n) ==
    IF n = 0 THEN EmptyDict
    ELSE LET prev == MetaByIdSemUpTo(sem, n - 1)
         IN  [i \in (DOMAIN prev) \cup {sem[n][1]} |-> IF i = sem[n][1] THEN sem[n][3] ELSE prev[i]]

RECURSIVE MetaByIdUpTo(_, _, _)
MetaByIdUpTo(sem, lex, n) ==
    IF n = 0 THEN MetaByIdSemUpTo(sem, Len(sem))
    ELSE LET prev == MetaByIdUpTo(sem, lex, n - 1)
         IN  [i \in (DOMAIN prev) \cup {lex[n][1]} |-> IF i \in DOMAIN prev THEN prev[i] ELSE lex[n][3]]

MetaById(sem, lex) == MetaByIdUpTo(sem, lex, Len(lex))

\* SearchHit(text=meta.get("text", ""), score=..., bank=meta.get("bank", "Unknown"),
\*           source=meta.get("source", ""), page=int(meta.get("page", 0)))
SearchHit(meta, score) ==
    [text |-> MetaGet(meta, "text", <<>>), score |-> score,
     bank |-> MetaGet(meta, "bank", "Unknown"),
     source |-> MetaGet(meta, "source", ""), page |-> MetaGet(meta, "page", 0)]

\* what a retrieve call of the engine came to: it raised, or it returned hits
\* for the ids ranked; whether it fused; and the engine's index after it
EngineRaises(index) == [raised |-> TRUE, fused |-> FALSE, ranked |-> <<>>, hits |-> <<>>, index |-> index]
EngineReturns(fused, ranked, hits, index) ==
    [raised |-> FALSE, fused |-> fused, ranked |-> ranked, hits |-> hits, index |-> index]

\* the (id, score) pairs of (id, score, metadata) triples
Pairs(triples) == [j \in DOMAIN triples |-> <<triples[j][1], triples[j][2]>>]

\* PineconeRAGEngine.retrieve(query, top_k): hybrid when self.lex is set,
\* else the first top_k semantic hits
engine_retrieve(index, env, vmeta, order, query, top_k) ==
    LET sem == retrieve_semantic(env, vmeta, top_k)
    IN  IF sem.raised THEN EngineRaises(index)
        ELSE IF ~index.is_none
        THEN LET lex == retrieve_lexical(index, query, top_k)
                 fused == reciprocal_rank_fusion(<<Pairs(sem.hits), Pairs(lex.out)>>,
                                                 DefaultKappa, top_k, order)
                 meta_by_id == MetaById(sem.hits, lex.out)
             IN  EngineReturns(TRUE, fused,
                               [j \in DOMAIN fused |-> SearchHit(meta_by_id[fused[j][1]], fused[j][2])],
                               lex.index)
        ELSE LET first == Slice(sem.hits, top_k)
             IN  EngineReturns(FALSE, Pairs(first),
                               [j \in DOMAIN first |-> SearchHit(first[j][3], first[j][2])],
                               index)

(***************************************************************************)
(* State                                                                   *)
(***************************************************************************)
VARIABLES
    hashOrder,   \* the process's str hash order (PYTHONHASHSEED is random)
    f_lists,     \* fusion: the input lists
    f_kappa,     \* fusion: kappa of the latest call
    f_top_k,     \* fusion: top_k of the latest call
    f_out,       \* fusion: what the latest call returned
    f_done,      \* fusion: whether a call has returned
    lexA,        \* the BM25LexicalIndex that is built
    lexFile,     \* the snapshot file at persist_path
    lexB,        \* a second BM25LexicalIndex, fresh until it loads the file
    lx_ret,      \* lexical index: the latest call and what it returned
    CHUNKS,      \* services/retrieval.py: _CHUNKS
    HYBRID,      \* services/retrieval.py: _HYBRID
    rb_pc,       \* the rebuild under way: the statement it executes next
    rb_chunks,   \* the rebuild under way: its chunks argument
    gen_prior,   \* the chunks of the latest register_chunks call that ended
    s_ret,       \* service: the latest call and what it returned
    ENGINE,      \* the PineconeRAGEngine of the process
    eng_loaded,  \* the engine's lexical index as __init__ left it
    e_ret        \* engine: the latest call and what it returned

fuseVars == <<hashOrder, f_lists, f_kappa, f_top_k, f_out, f_done>>
lexVars == <<lexA, lexFile, lexB, lx_ret>>
svcVars == <<CHUNKS, HYBRID, rb_pc, rb_chunks, gen_prior, s_ret>>
engVars == <<ENGINE, eng_loaded, e_ret>>
vars == <<fuseVars, lexVars, svcVars, engVars>>

\* no fusion is under way
FuseIdle ==
    /\ hashOrder = <<"x", "y", "z">>
    /\ f_lists = <<(<<>>), (<<>>)>>
    /\ f_kappa = DefaultKappa
    /\ f_top_k = DefaultTopK
    /\ f_out = <<>>
    /\ f_done = FALSE

\* the record of a call on a lexical index: the operation, its arguments and
\* what it came to
LexCall(op, index, chunks, query, top_k, out) ==
    [op |-> op, index |-> index, chunks |-> chunks, query |-> query, top_k |-> top_k, out |-> out]
NoCall == LexCall("none", "A", <<>>, <<>>, 0, Returns(<<>>))

\* no lexical index has been built
LexIdle ==
    /\ lexA = FreshIndex
    /\ lexFile = NoFile
    /\ lexB = FreshIndex
    /\ lx_ret = NoCall

\* the record of a call on the retrieval service: the operation, its
\* arguments, the outside world it met and what it came to
SvcCall(op, chunks, env, query, top_k, mode, out) ==
    [op |-> op, chunks |-> chunks, env |-> env, query |-> query, top_k |-> top_k,
     mode |-> mode, out |-> out]
NoSvcCall ==
    SvcCall("none", <<>>, Env(FALSE, TRUE, FALSE, <<>>), <<>>, 0, "hybrid",
            SearchReturns(<<>>, <<>>))

\* a generation: the chunks a register_chunks call was given; none before
\* the first call
Generation(chunks) == [registered |-> TRUE, chunks |-> chunks]
NoGeneration == [registered |-> FALSE, chunks |-> <<>>]

\* the record of a call on the engine: the operation, its arguments, the
\* outside world it met and what it came to
EngineCall(op, keys_set, env, vmeta, query, top_k, out) ==
    [op |-> op, keys_set |-> keys_set, env |-> env, vmeta |-> vmeta, query |-> query,
     top_k |-> top_k, out |-> out]
NoEngineCall ==
    EngineCall("none", TRUE, Env(TRUE, TRUE, FALSE, <<>>), EmptyMeta, <<>>, 0,
               EngineReturns(FALSE, <<>>, <<>>, EngineNoIndex))

\* no engine has been constructed
EngIdle ==
    /\ ENGINE = NoEngine
    /\ eng_loaded = EngineNoIndex
    /\ e_ret = NoEngineCall

\* the module as imported: _CHUNKS = [], _HYBRID = None
SvcIdle ==
    /\ CHUNKS = <<>>
    /\ HYBRID = NoHybrid
    /\ rb_pc = "idle"
    /\ rb_chunks = <<>>
    /\ gen_prior = NoGeneration
    /\ s_ret = NoSvcCall

(***************************************************************************)
(* SpecFuse: reciprocal_rank_fusion on bounded inputs                      *)
(***************************************************************************)
SemLists == {[r \in DOMAIN s |-> <<s[r], SemRawScore(r)>>] : s \in SeqsUpTo(Id, MaxSemLen)}
LexLists == {[r \in DOMAIN s |-> <<s[r], LexRawScore(r)>>] : s \in SeqsUpTo(Id, MaxLexLen)}

\* the ranked lists exist, nothing has been fused; kappa and top_k stand at
\* the defaults of the signature
InitFuse ==
    /\ hashOrder \in Orders(Id)
    /\ f_lists \in {<<sem, lex>> : sem \in SemLists, lex \in LexLists}
    /\ f_kappa = DefaultKappa
    /\ f_top_k = DefaultTopK
    /\ f_out = <<>>
    /\ f_done = FALSE
    /\ LexIdle
    /\ SvcIdle
    /\ EngIdle

\* one call of reciprocal_rank_fusion(lists, kappa, top_k)
Fuse ==
    /\ ~f_done
    /\ \E kappa \in Kappas, top_k \in TopKs :
        /\ f_kappa' = kappa
        /\ f_top_k' = top_k
        /\ f_out' = reciprocal_rank_fusion(f_lists, kappa, top_k, hashOrder)
        /\ f_done' = TRUE
    /\ UNCHANGED <<hashOrder, f_lists, lexVars, svcVars, engVars>>

\* the same call made once more, with the same arguments
FuseAgain ==
    /\ f_done
    /\ f_out' = reciprocal_rank_fusion(f_lists, f_kappa, f_top_k, hashOrder)
    /\ UNCHANGED <<hashOrder, f_lists, f_kappa, f_top_k, f_done, lexVars, svcVars, engVars>>

\* the serving process is started again: a new interpreter, a new hash seed
ProcessRestart ==
    /\ f_done
    /\ hashOrder' \in Orders(Id)
    /\ UNCHANGED <<f_lists, f_kappa, f_top_k, f_out, f_done, lexVars, svcVars, engVars>>

NextFuse == Fuse \/ FuseAgain \/ ProcessRestart

SpecFuse == InitFuse /\ [][NextFuse]_vars

(***************************************************************************)
(* SpecLex: one BM25LexicalIndex built and persisted, a second one loaded  *)
(***************************************************************************)
InitLex == FuseIdle /\ LexIdle /\ SvcIdle /\ EngIdle

\* lexA.build(chunks, persist_path): every build of the repository persists
\* (HybridSearch.register_chunks passes the path on).  The index that loaded
\* an earlier snapshot is dropped; the next load is into a fresh one.
Build ==
    \E chunks \in ChunkLists :
        LET r == BuildIndex(lexA, lexFile, chunks)
        IN  /\ lexA' = r.index
            /\ lexFile' = r.file
            /\ lexB' = FreshIndex
            /\ lx_ret' = LexCall("build", "A", chunks, <<>>, 0, r.out)
            /\ UNCHANGED <<fuseVars, svcVars, engVars>>

\* lexB = BM25LexicalIndex(); lexB.load(persist_path)
Load ==
    LET r == LoadIndex(FreshIndex, lexFile)
    IN  /\ lexB' = r.index
        /\ lx_ret' = LexCall("load", "B", <<>>, <<>>, 0, r.out)
        /\ UNCHANGED <<lexA, lexFile, fuseVars, svcVars, engVars>>

\* index.search(query, top_k) on either index
Search ==
    \E which \in {"A", "B"}, query \in Queries, top_k \in TopKs :
        /\ lx_ret' = LexCall("search", which, <<>>, query, top_k,
                             LexSearch(IF which = "A" THEN lexA ELSE lexB, query, top_k))
        /\ UNCHANGED <<lexA, lexFile, lexB, fuseVars, svcVars, engVars>>

NextLex == Build \/ Load \/ Search

SpecLex == InitLex /\ [][NextLex]_vars

(***************************************************************************)
(* Spec: the retrieval service, one call at a time                         *)
(***************************************************************************)
\* retrieve's default top_k
DefaultRetrieveTopK == 6

\* the module is imported by a process with some hash order
Init ==
    /\ hashOrder \in Orders(Id)
    /\ f_lists = <<(<<>>), (<<>>)>>
    /\ f_kappa = DefaultKappa
    /\ f_top_k = DefaultTopK
    /\ f_out = <<>>
    /\ f_done = FALSE
    /\ LexIdle
    /\ SvcIdle
    /\ EngIdle

\* register_chunks(chunks), run to its end
RegisterChunks ==
    \E chunks \in SvcChunkLists :
        LET r == register_chunks(lexFile, chunks)
        IN  /\ s_ret = NoSvcCall
            /\ CHUNKS' = r.chunks
            /\ HYBRID' = r.hybrid
            /\ lexFile' = r.file
            /\ gen_prior' = Generation(chunks)
            /\ s_ret' = SvcCall("register_chunks", chunks, NoSvcCall.env, <<>>, 0, "hybrid",
                                IF r.raised THEN SearchRaises ELSE SearchReturns(<<>>, <<>>))
            /\ UNCHANGED <<fuseVars, lexA, lexB, lx_ret, rb_pc, rb_chunks, engVars>>

\* retrieve(query, top_k, mode)
Retrieve ==
    \E env \in Envs, query \in Queries, top_k \in TopKs, mode \in Modes :
        /\ s_ret = NoSvcCall
        /\ s_ret' = SvcCall("retrieve", <<>>, env, query, top_k, mode,
                            retrieve(CHUNKS, HYBRID, env, hashOrder, query, top_k, mode))
        /\ UNCHANGED <<fuseVars, lexVars, CHUNKS, HYBRID, rb_pc, rb_chunks, gen_prior, engVars>>

\* the caller has taken what the call came to
Return ==
    /\ s_ret # NoSvcCall
    /\ s_ret' = NoSvcCall
    /\ UNCHANGED <<fuseVars, lexVars, CHUNKS, HYBRID, rb_pc, rb_chunks, gen_prior, engVars>>

Next == RegisterChunks \/ Retrieve \/ Return

Spec == Init /\ [][Next]_vars

(***************************************************************************)
(* SpecRebuild: register_chunks statement by statement in one thread,      *)
(* retrieve calls of other threads in between.  A retrieve call is taken   *)
(* as one step.                                                            *)
(***************************************************************************)
InitRebuild == FuseIdle /\ LexIdle /\ SvcIdle /\ EngIdle

\* what the vector database returns to the queries of this specification
RebuildEnvs == {e \in Envs : e.embedder /\ ~e.fails /\ Len(e.ranking) <= 1}

\* retrieval.py: _CHUNKS = chunks
RebuildBegin ==
    /\ rb_pc = "idle"
    /\ \E chunks \in SvcChunkLists :
        /\ CHUNKS' = chunks
        /\ rb_chunks' = chunks
    /\ rb_pc' = "new_hybrid"
    /\ s_ret' = NoSvcCall
    /\ UNCHANGED <<fuseVars, lexVars, HYBRID, gen_prior, engVars>>

\* retrieval.py: _HYBRID = HybridSearch(semantic_fn=...)
RebuildNewHybrid ==
    /\ rb_pc = "new_hybrid"
    /\ HYBRID' = NewHybrid
    /\ rb_pc' = "lex_chunks"
    /\ s_ret' = NoSvcCall
    /\ UNCHANGED <<fuseVars, lexVars, CHUNKS, rb_chunks, gen_prior, engVars>>

\* build: self.chunks = chunks, the list of Chunk objects made of the dicts
RebuildLexChunks ==
    /\ rb_pc = "lex_chunks"
    /\ HYBRID' = [HYBRID EXCEPT !.lex.chunks = [i \in DOMAIN rb_chunks |-> Chunk(rb_chunks[i])]]
    /\ rb_pc' = "lex_tokens"
    /\ s_ret' = NoSvcCall
    /\ UNCHANGED <<fuseVars, lexVars, CHUNKS, rb_chunks, gen_prior, engVars>>

\* build: self.doc_tokens = [_tokenize(c.text) for c in chunks]
RebuildLexTokens ==
    /\ rb_pc = "lex_tokens"
    /\ HYBRID' = [HYBRID EXCEPT !.lex.doc_tokens =
                      [i \in DOMAIN HYBRID.lex.chunks |-> Tokenize(HYBRID.lex.chunks[i].text)]]
    /\ rb_pc' = "lex_bm25"
    /\ s_ret' = NoSvcCall
    /\ UNCHANGED <<fuseVars, lexVars, CHUNKS, rb_chunks, gen_prior, engVars>>

\* build: self.bm25 = BM25Okapi(self.doc_tokens); when it raises, the call
\* ends here
RebuildLexBm25 ==
    /\ rb_pc = "lex_bm25"
    /\ IF BM25OkapiRaises(HYBRID.lex.doc_tokens)
       THEN /\ rb_pc' = "idle"
            /\ gen_prior' = Generation(rb_chunks)
            /\ rb_chunks' = <<>>
            /\ UNCHANGED HYBRID
       ELSE /\ HYBRID' = [HYBRID EXCEPT !.lex.bm25 = BM25Okapi(HYBRID.lex.doc_tokens)]
            /\ rb_pc' = "lex_id_to_idx"
            /\ UNCHANGED <<rb_chunks, gen_prior>>
    /\ s_ret' = NoSvcCall
    /\ UNCHANGED <<fuseVars, lexVars, CHUNKS, engVars>>

\* build: self.id_to_idx = {c.id: i for i, c in enumerate(chunks)}
RebuildLexIdToIdx ==
    /\ rb_pc = "lex_id_to_idx"
    /\ HYBRID' = [HYBRID EXCEPT !.lex.id_to_idx = IdToIdx(HYBRID.lex.chunks)]
    /\ rb_pc' = "lex_persist"
    /\ s_ret' = NoSvcCall
    /\ UNCHANGED <<fuseVars, lexVars, CHUNKS, rb_chunks, gen_prior, engVars>>

\* build: pickle.dump(...) to persist_path
RebuildLexPersist ==
    /\ rb_pc = "lex_persist"
    /\ lexFile' = Snapshot(HYBRID.lex)
    /\ rb_pc' = "chunk_store"
    /\ s_ret' = NoSvcCall
    /\ UNCHANGED <<fuseVars, lexA, lexB, lx_ret, CHUNKS, HYBRID, rb_chunks, gen_prior, engVars>>

\* HybridSearch.register_chunks: self.chunk_store = {...}; the call returns
RebuildChunkStore ==
    /\ rb_pc = "chunk_store"
    /\ HYBRID' = [HYBRID EXCEPT !.chunk_store = ChunkStore(rb_chunks)]
    /\ rb_pc' = "idle"
    /\ gen_prior' = Generation(rb_chunks)
    /\ rb_chunks' = <<>>
    /\ s_ret' = NoSvcCall
    /\ UNCHANGED <<fuseVars, lexVars, CHUNKS, engVars>>

\* a retrieve call of another thread, wherever the rebuild stands
RetrieveMeanwhile ==
    \E env \in RebuildEnvs, query \in Queries, mode \in Modes :
        /\ s_ret = NoSvcCall
        /\ s_ret' = SvcCall("retrieve", <<>>, env, query, DefaultRetrieveTopK, mode,
                            retrieve(CHUNKS, HYBRID, env, hashOrder, query, DefaultRetrieveTopK, mode))
        /\ UNCHANGED <<fuseVars, lexVars, CHUNKS, HYBRID, rb_pc, rb_chunks, gen_prior, engVars>>

NextRebuild ==
    \/ RebuildBegin
    \/ RebuildNewHybrid
    \/ RebuildLexChunks
    \/ RebuildLexTokens
    \/ RebuildLexBm25
    \/ RebuildLexIdToIdx
    \/ RebuildLexPersist
    \/ RebuildChunkStore
    \/ RetrieveMeanwhile
    \/ Return

SpecRebuild == InitRebuild /\ [][NextRebuild]_vars

(***************************************************************************)
(* SpecEngine: a process that constructs the PineconeRAGEngine over the    *)
(* file it finds at bm25_path and serves retrieve calls                    *)
(***************************************************************************)
\* what the vector database does to the engine's queries
EngineEnvs == {e \in Envs : e.api_key /\ e.embedder}

InitEngine ==
    /\ hashOrder \in Orders(Id)
    /\ f_lists = <<(<<>>), (<<>>)>>
    /\ f_kappa = DefaultKappa
    /\ f_top_k = DefaultTopK
    /\ f_out = <<>>
    /\ f_done = FALSE
    /\ lexA = FreshIndex
    /\ lexFile \in EngineFiles
    /\ lexB = FreshIndex
    /\ lx_ret = NoCall
    /\ SvcIdle
    /\ EngIdle

\* PineconeRAGEngine(): with or without the API keys in the settings
EngineStart ==
    /\ ~ENGINE.constructed
    /\ e_ret = NoEngineCall
    /\ \E keys_set \in BOOLEAN :
        LET r == PineconeRAGEngine_init(keys_set, lexFile)
        IN  /\ ENGINE' = r.engine
            /\ eng_loaded' = r.engine.lex
            /\ e_ret' = EngineCall("init", keys_set, NoEngineCall.env, EmptyMeta, <<>>, 0,
                                   IF r.raised THEN EngineRaises(r.engine.lex)
                                   ELSE EngineReturns(FALSE, <<>>, <<>>, r.engine.lex))
    /\ UNCHANGED <<fuseVars, lexVars, svcVars>>

\* engine.retrieve(query, top_k)
EngineRetrieve ==
    /\ ENGINE.constructed
    /\ e_ret = NoEngineCall
    /\ \E env \in EngineEnvs, vmeta \in VecMetas, query \in Queries, top_k \in TopKs :
        LET r == engine_retrieve(ENGINE.lex, env, vmeta, hashOrder, query, top_k)
        IN  /\ ENGINE' = [ENGINE EXCEPT !.lex = r.index]
            /\ e_ret' = EngineCall("retrieve", TRUE, env, vmeta, query, top_k, r)
    /\ UNCHANGED <<fuseVars, lexVars, svcVars, eng_loaded>>

\* the caller has taken what the call came to
EngineReturn ==
    /\ e_ret # NoEngineCall
    /\ e_ret' = NoEngineCall
    /\ UNCHANGED <<fuseVars, lexVars, svcVars, ENGINE, eng_loaded>>

NextEngine == EngineStart \/ EngineRetrieve \/ EngineReturn

SpecEngine == InitEngine /\ [][NextEngine]_vars

(***************************************************************************)
(* Claims about reciprocal_rank_fusion (checked under SpecFuse)            *)
(***************************************************************************)
\* the ids that occur in at least one input list
UnionOfLists == {i \in Id : \E l \in DOMAIN f_lists : \E r \in DOMAIN f_lists[l] : f_lists[l][r][1] = i}

\* the 1-based positions at which id stands in L
PositionsOf(L, id) == {r \in DOMAIN L : L[r][1] = id}

\* the position of id in L; where L holds the id more than once, the position
\* of its last occurrence
PositionOf(L, id) == CHOOSE r \in PositionsOf(L, id) : \A q \in PositionsOf(L, id) : q <= r

\* what list L contributes to the fused score of id
Contribution(L, id, kappa) ==
    IF PositionsOf(L, id) = {} THEN Frac(0, 1) ELSE Frac(1, kappa + PositionOf(L, id))

\* the sum of the contributions of the first n lists
RECURSIVE SumOfContributions(_, _, _, _)
SumOfContributions(lists, id, kappa, n) ==
    IF n = 0 THEN Frac(0, 1)
    ELSE FracAdd(SumOfContributions(lists, id, kappa, n - 1), Contribution(lists[n], id, kappa))

\* C1: every id of the union of the input lists gets the fused score
\* sum over the lists that contain it of 1/(kappa + r), r its 1-based position
\* in that list (of its last occurrence, should the list repeat the id); a
\* list without the id contributes 0.  The scores are read off the returned
\* list, which holds every id of the union once top_k reaches their number.
C1_FusedScoreIsSumOfReciprocalRanks ==
    f_done =>
        /\ \A j \in DOMAIN f_out :
              FracEq(f_out[j][2], SumOfContributions(f_lists, f_out[j][1], f_kappa, Len(f_lists)))
        /\ f_top_k >= Cardinality(UnionOfLists) =>
              \A i \in UnionOfLists : \E j \in DOMAIN f_out : f_out[j][1] = i

\* a fusion returned an id that both lists rank, at different ranks, and an
\* id that only one list ranks
C1_Witness ==
    /\ f_done
    /\ \E j, k \in DOMAIN f_out :
          /\ PositionsOf(f_lists[1], f_out[j][1]) # {}
          /\ PositionsOf(f_lists[2], f_out[j][1]) # {}
          /\ PositionOf(f_lists[1], f_out[j][1]) # PositionOf(f_lists[2], f_out[j][1])
          /\ PositionsOf(f_lists[1], f_out[k][1]) # {}
          /\ PositionsOf(f_lists[2], f_out[k][1]) = {}

\* the ranks an id has in the lists that contain it, and the lowest of them
RanksOf(id) == {PositionOf(f_lists[l], id) : l \in {m \in DOMAIN f_lists : PositionsOf(f_lists[m], id) # {}}}
MinRankOf(id) == CHOOSE r \in RanksOf(id) : \A q \in RanksOf(id) : r <= q

\* the input of the tie-break scenario
TieScenarioLists ==
    << <<(<<"x", 10>>), (<<"y", 5>>), (<<"z", 1>>)>>, <<(<<"y", 9>>), (<<"x", 3>>)>> >>

\* C2: ids with equal fused scores come out ordered by their lowest rank
\* across the lists that contain them, and the id that appears earliest comes
\* first: for the lists [(x,10),(y,5),(z,1)] and [(y,9),(x,3)], kappa 60 and
\* top_k 3 the order is x, y, z.
C2_TiesBrokenByMinRank ==
    f_done =>
        /\ \A j, k \in DOMAIN f_out :
              (j < k /\ FracEq(f_out[j][2], f_out[k][2])) =>
                  MinRankOf(f_out[j][1]) <= MinRankOf(f_out[k][1])
        /\ (f_lists = TieScenarioLists /\ f_kappa = DefaultKappa /\ f_top_k = 3) =>
              IdsOf(f_out) = <<"x", "y", "z">>

\* C3: a call of reciprocal_rank_fusion repeated on the same lists, kappa and
\* top_k returns the same ids in the same order, whatever else has changed
\* (the iteration order of the id set included).
C3_RepeatedFusionSameOrder ==
    [][(/\ f_done
        /\ f_done'
        /\ f_lists' = f_lists
        /\ f_kappa' = f_kappa
        /\ f_top_k' = f_top_k) => f_out' = f_out]_vars

\* C9: the fused result holds only ids of the union of the input lists, each
\* at most once; with every input list empty the result is empty.
C9_FusedIdsFromUnionOnce ==
    f_done =>
        /\ \A j \in DOMAIN f_out : f_out[j][1] \in UnionOfLists
        /\ \A j, k \in DOMAIN f_out : f_out[j][1] = f_out[k][1] => j = k
        /\ (\A l \in DOMAIN f_lists : f_lists[l] = <<>>) => f_out = <<>>

\* a fusion returned results while some id is in no list, one id is in both
\* lists and one list repeats an id
C9_Witness ==
    /\ f_done
    /\ f_out # <<>>
    /\ UnionOfLists # Id
    /\ \E i \in Id : PositionsOf(f_lists[1], i) # {} /\ PositionsOf(f_lists[2], i) # {}
    /\ \E i \in Id : Cardinality(PositionsOf(f_lists[1], i)) > 1

\* L with the entry at position p moved up to position q < p, the entries
\* between moving one position down
Move(L, p, q) ==
    [j \in DOMAIN L |-> IF j < q \/ j > p THEN L[j] ELSE IF j = q THEN L[p] ELSE L[j - 1]]

\* the score the fusion of lists gives id, with the kappa of the latest call
FusedScoreOf(lists, id) == FusedScoreUpTo(RankMaps(lists), id, f_kappa, Len(lists))

\* C17: when an id moves to a better rank in one input list (its entry is
\* moved towards the front, the other entries keep their order) and the
\* other list is unchanged, the fused score of the id does not decrease: the
\* score of the fusion with the improved list is not below the returned one.
C17_BetterRankNoLowerScore ==
    f_done =>
        \A j \in DOMAIN f_out : \A l \in DOMAIN f_lists :
            \A p \in PositionsOf(f_lists[l], f_out[j][1]) : \A q \in 1 .. (p - 1) :
                LET improved == [f_lists EXCEPT ![l] = Move(f_lists[l], p, q)]
                IN  ~FracLess(FusedScoreOf(improved, f_out[j][1]), f_out[j][2])

\* a fusion returned an id that both lists rank and whose score rises when it
\* moves up in one of them
C17_Witness ==
    /\ f_done
    /\ \E l \in DOMAIN f_lists : \E p \in DOMAIN f_lists[l] : \E q \in 1 .. (p - 1) :
          LET id == f_lists[l][p][1]
              improved == [f_lists EXCEPT ![l] = Move(f_lists[l], p, q)]
          IN  /\ \A k \in DOMAIN f_lists : PositionsOf(f_lists[k], id) # {}
              /\ \E j \in DOMAIN f_out :
                    /\ f_out[j][1] = id
                    /\ FracLess(f_out[j][2], FusedScoreOf(improved, id))

\* C18: with N input lists every returned fused score is greater than 0 and
\* at most N/(kappa+1), also for an id that a list holds more than once; with
\* kappa = 60 no list contributes more than 1/61 to an id.
C18_FusedScoreBounds ==
    f_done =>
        /\ \A j \in DOMAIN f_out :
              /\ FracLess(Frac(0, 1), f_out[j][2])
              /\ ~FracLess(Frac(Len(f_lists), f_kappa + 1), f_out[j][2])
        /\ f_kappa = DefaultKappa =>
              \A l \in DOMAIN f_lists : \A id \in DOMAIN RankMap(f_lists[l]) :
                  ~FracLess(Frac(1, DefaultKappa + 1),
                            Frac(1, f_kappa + RankMap(f_lists[l])[id]))

\* a fusion returned an id that one list holds twice, and an id whose score
\* is N/(kappa+1): first in every list
C18_Witness ==
    /\ f_done
    /\ \E j \in DOMAIN f_out :
          \E l \in DOMAIN f_lists : Cardinality(PositionsOf(f_lists[l], f_out[j][1])) > 1
    /\ \E j \in DOMAIN f_out : FracEq(f_out[j][2], Frac(Len(f_lists), f_kappa + 1))

(***************************************************************************)
(* Claims about BM25LexicalIndex (checked under SpecLex)                   *)
(***************************************************************************)
\* the index the latest call was made on
CalledIndex == IF lx_ret.index = "A" THEN lexA ELSE lexB

\* build or load returned on this index: its model is fitted over its tokens
IsBuilt(index) == index.bm25.fitted /\ index.bm25.corpus = index.doc_tokens

\* corpus index a ranks before corpus index b: a higher score, or the same
\* score and a lower index
RanksBefore(scores, a, b) ==
    \/ FracLess(scores[b], scores[a])
    \/ FracEq(scores[a], scores[b]) /\ a < b

\* C6: search on a built index returns the highest-scoring chunks: the hits
\* are the head of the corpus ordered by descending score, chunks of equal
\* score in ascending corpus index, each hit the chunk's id with its score;
\* for top_k >= 0 there are min(top_k, corpus size) of them.
C6_LexicalSearchOrder ==
    (lx_ret.op = "search" /\ IsBuilt(CalledIndex)) =>
        LET index == CalledIndex
            scores == GetScores(index.bm25, Tokenize(lx_ret.query))
            N == Len(index.chunks)
            out == lx_ret.out.hits
        IN  /\ ~lx_ret.out.raised
            /\ lx_ret.top_k >= 0 => Len(out) = Min(lx_ret.top_k, N)
            /\ \E p \in Orders(1 .. N) :
                  /\ \A a, b \in 1 .. N : a < b => RanksBefore(scores, p[a], p[b])
                  /\ Len(out) <= N
                  /\ \A j \in DOMAIN out : out[j] = <<index.chunks[p[j]].id, scores[p[j]]>>

\* a search cut off by top_k returned a hit while two chunks of the corpus
\* have the same score
C6_Witness ==
    /\ lx_ret.op = "search"
    /\ IsBuilt(CalledIndex)
    /\ ~lx_ret.out.raised
    /\ Len(lx_ret.out.hits) = 1
    /\ Len(CalledIndex.chunks) = 2
    /\ LET scores == GetScores(CalledIndex.bm25, Tokenize(lx_ret.query))
       IN  FracEq(scores[1], scores[2]) /\ scores[1].n > 0
    /\ CalledIndex.chunks[1].id # CalledIndex.chunks[2].id

\* C7: search returns an empty list, and does not fail, on an index that was
\* never built or loaded and on one built over zero chunks; build over an
\* empty chunk list does not fail.
C7_EmptyIndexSearchesEmpty ==
    /\ (lx_ret.op = "build" /\ lx_ret.chunks = <<>>) => ~lx_ret.out.raised
    /\ (lx_ret.op = "search" /\ CalledIndex.chunks = <<>>) => lx_ret.out = Returns(<<>>)

\* the file on disk is the snapshot of lexA as it stands, and lexB loaded it
LoadedFromPersisted == IsBuilt(lexA) /\ lexFile = Snapshot(lexA) /\ lexB.bm25.fitted

\* C8: an index loaded from the snapshot a built index persisted answers
\* every query and top_k with the same ids, in the same order, with the same
\* scores as the index that persisted it.
C8_LoadPersistRoundTrip ==
    LoadedFromPersisted =>
        /\ \A query \in Queries, top_k \in TopKs :
              LexSearch(lexB, query, top_k) = LexSearch(lexA, query, top_k)
        /\ lx_ret.op = "search" =>
              /\ lx_ret.out = LexSearch(lexA, lx_ret.query, lx_ret.top_k)
              /\ lx_ret.out = LexSearch(lexB, lx_ret.query, lx_ret.top_k)

\* the loaded index was searched and returned two hits, for a corpus with a
\* text that only matches once lower-cased
C8_Witness ==
    /\ LoadedFromPersisted
    /\ lx_ret.op = "search"
    /\ lx_ret.index = "B"
    /\ ~lx_ret.out.raised
    /\ Len(lx_ret.out.hits) = 2
    /\ lx_ret.out.hits[2][2].n > 0
    /\ \E i \in DOMAIN lexA.chunks : lexA.chunks[i].text = <<"A">>


(***************************************************************************)
(* Claims about the retrieval service (checked under Spec and SpecRebuild) *)
(***************************************************************************)
\* the registry a retrieve call reads: chunk_store of _HYBRID, or the
\* id_to_chunk made of _CHUNKS when there is no _HYBRID
Registry == IF HYBRID.exists THEN HYBRID.chunk_store ELSE FallbackStore(CHUNKS)

\* the ids of the returned records, in order
IdsOfRecords(hits) == [j \in DOMAIN hits |-> hits[j].id]

\* _CHUNKS and _HYBRID of a whole generation: what a register_chunks call
\* with the generation's chunks leaves when nothing runs beside it
GenerationChunks(g) == IF g.registered THEN register_chunks(NoFile, g.chunks).chunks ELSE <<>>
GenerationHybrid(g) == IF g.registered THEN register_chunks(NoFile, g.chunks).hybrid ELSE NoHybrid

\* the generation the rebuild under way installs; without one, the prior
GenNext == IF rb_pc = "idle" THEN gen_prior ELSE Generation(rb_chunks)

\* what the latest retrieve call would have come to against generation g
AnswerOf(g) ==
    retrieve(GenerationChunks(g), GenerationHybrid(g), s_ret.env, hashOrder,
             s_ret.query, s_ret.top_k, s_ret.mode)

\* C4: under every interleaving of a rebuild with retrieve calls, a query
\* sees the whole prior generation or the whole new one: what it returns is
\* what it would return against the registry and index the last ended
\* register_chunks call left, or against those the rebuild under way leaves.
C4_QuerySeesWholeGeneration ==
    s_ret.op = "retrieve" => s_ret.out \in {AnswerOf(gen_prior), AnswerOf(GenNext)}

\* the latest call is a hybrid retrieve that met no built lexical index
HybridWithoutIndex ==
    /\ s_ret.op = "retrieve"
    /\ s_ret.mode = "hybrid"
    /\ ~HYBRID.lex.bm25.fitted

\* the semantic-only search with the query and top_k of the latest call
SemanticOnly == retrieve(CHUNKS, HYBRID, s_ret.env, hashOrder, s_ret.query, s_ret.top_k, "semantic")

\* C5: a hybrid search that finds no lexical index built (before any
\* register_chunks call, or with a HybridSearch whose index is unbuilt)
\* returns the same ids in the same order as the semantic-only search with
\* the same query and top_k, and fails exactly when that one fails.
C5_HybridWithoutIndexIsSemantic ==
    HybridWithoutIndex =>
        /\ s_ret.out.raised = SemanticOnly.raised
        /\ IdsOfRecords(s_ret.out.hits) = IdsOfRecords(SemanticOnly.hits)

\* the same for the top_k the vector database accepts
HybridWithoutIndexIsSemanticForPositiveTopK ==
    (HybridWithoutIndex /\ s_ret.top_k >= 1) =>
        /\ s_ret.out.raised = SemanticOnly.raised
        /\ IdsOfRecords(s_ret.out.hits) = IdsOfRecords(SemanticOnly.hits)

\* C10: the result of a retrieve call holds one record per entry of the
\* ranking its mode produced, with the ids in the ranking's order; a record
\* whose id the registry lacks has empty text and empty metadata, a record
\* whose id the registry holds has the text and metadata registered for it.
C10_RankedIdsAllSurface ==
    (s_ret.op = "retrieve" /\ ~s_ret.out.raised) =>
        /\ IdsOfRecords(s_ret.out.hits) = IdsOf(s_ret.out.ranked)
        /\ \A j \in DOMAIN s_ret.out.hits :
              LET rec == s_ret.out.hits[j]
              IN  IF rec.id \in DOMAIN Registry
                  THEN rec.text = Registry[rec.id].text /\ rec.metadata = Registry[rec.id].metadata
                  ELSE rec.text = <<>> /\ rec.metadata = EmptyMeta

\* a retrieve call returned a record for a registered id behind a record for
\* an id the registry lacks
C10_Witness ==
    /\ s_ret.op = "retrieve"
    /\ ~s_ret.out.raised
    /\ \E j, k \in DOMAIN s_ret.out.hits :
          /\ j < k
          /\ s_ret.out.hits[j].id \notin DOMAIN Registry
          /\ s_ret.out.hits[j].text = <<>>
          /\ s_ret.out.hits[k].id \in DOMAIN Registry
          /\ s_ret.out.hits[k].text # <<>>

\* a rebuild taken statement by statement ends where the whole call ends
RebuildEndsAsRegisterChunks ==
    (rb_pc = "idle" /\ gen_prior.registered) =>
        /\ CHUNKS = GenerationChunks(gen_prior)
        /\ HYBRID = GenerationHybrid(gen_prior)

\* C11: a retrieve call that returns holds at most top_k records, whatever
\* the mode and the top_k; in hybrid mode the ranking is the fusion of the
\* semantic ranking asked with max(top_k, 20) and the lexical ranking asked
\* with max(top_k, 50), cut to top_k.  (A negative top_k is read as a
\* request for no record.)
C11_AtMostTopKRecords ==
    (s_ret.op = "retrieve" /\ ~s_ret.out.raised) =>
        /\ Len(s_ret.out.hits) <= Max(s_ret.top_k, 0)
        /\ (HYBRID.exists /\ s_ret.mode = "hybrid" /\ s_ret.query # <<>>) =>
              s_ret.out.ranked =
                  Slice(reciprocal_rank_fusion(
                            <<semantic_search(s_ret.env, s_ret.query, Max(s_ret.top_k, SemPool)).hits,
                              LexSearch(HYBRID.lex, s_ret.query, Max(s_ret.top_k, LexPool)).hits>>,
                            DefaultKappa, Cardinality(Id), hashOrder),
                        s_ret.top_k)

\* the same for the top_k that are not negative
AtMostTopKRecordsForNonNegativeTopK ==
    (s_ret.op = "retrieve" /\ ~s_ret.out.raised /\ s_ret.top_k >= 0) =>
        Len(s_ret.out.hits) <= s_ret.top_k

\* C12: with no chunk registered (register_chunks never called, or called
\* with an empty list) a retrieve call raises nothing and returns an empty
\* list, whatever the query and the mode.
C12_NoChunksNoHits ==
    (s_ret.op = "retrieve" /\ CHUNKS = <<>>) =>
        /\ ~s_ret.out.raised
        /\ s_ret.out.hits = <<>>

\* C13: no retrieve call ends in an exception, in particular not when the
\* embedding or the vector database query fails.
C13_RetrieveNeverRaises ==
    s_ret.op = "retrieve" => ~s_ret.out.raised

\* C14: semantic_search, as retrieve calls it, returns an empty list and does
\* not raise when the vector database client is not configured or the
\* embedder is not available.
C14_UnconfiguredSemanticSearchIsEmpty ==
    (s_ret.op = "retrieve" /\ s_ret.query # <<>> /\ (~s_ret.env.api_key \/ ~s_ret.env.embedder)) =>
        semantic_search(s_ret.env, s_ret.query, s_ret.top_k) = Returns(<<>>)

\* the same for a client that is not configured
UnconfiguredClientSemanticSearchIsEmpty ==
    (s_ret.op = "retrieve" /\ s_ret.query # <<>> /\ ~s_ret.env.api_key) =>
        semantic_search(s_ret.env, s_ret.query, s_ret.top_k) = Returns(<<>>)

\* the positive top_k a non-positive one may be normalised to
PositiveTopKs == 1 .. DefaultTopK

\* C16: a retrieve call with a top_k <= 0 comes to what the call comes to
\* with some positive top_k: it is not rejected for its top_k, returns no
\* empty list because top_k is 0 and cuts no tail because top_k is negative.
C16_NonPositiveTopKNormalised ==
    (s_ret.op = "retrieve" /\ s_ret.top_k <= 0) =>
        \E k \in PositiveTopKs :
            s_ret.out = retrieve(CHUNKS, HYBRID, s_ret.env, hashOrder, s_ret.query, k, s_ret.mode)

\* the ids of the chunks the lexical index holds
IndexIds == {HYBRID.lex.chunks[i].id : i \in DOMAIN HYBRID.lex.chunks}

\* C19: after register_chunks calls the lexical index and the registry hold
\* the chunks of the last call and nothing else, and agree: the ids of the
\* index are the keys of the registry, and the registry resolves the id of
\* every indexed chunk to the text that was tokenized for it.
C19_IndexAndRegistryOfLastCall ==
    gen_prior.registered =>
        /\ HYBRID.lex.chunks = [i \in DOMAIN gen_prior.chunks |-> Chunk(gen_prior.chunks[i])]
        /\ HYBRID.chunk_store = ChunkStore(gen_prior.chunks)
        /\ IndexIds = DOMAIN HYBRID.chunk_store
        /\ \A i \in DOMAIN HYBRID.lex.chunks :
              /\ HYBRID.lex.chunks[i].id \in DOMAIN HYBRID.chunk_store
              /\ HYBRID.chunk_store[HYBRID.lex.chunks[i].id].text = HYBRID.lex.chunks[i].text

\* the same after the calls that returned, for chunk lists without a repeated id
DistinctIds(chunks) == \A i, j \in DOMAIN chunks : chunks[i].id = chunks[j].id => i = j
IndexAndRegistryOfLastReturnedCall ==
    (s_ret.op = "register_chunks" /\ ~s_ret.out.raised /\ DistinctIds(s_ret.chunks)) =>
        /\ HYBRID.lex.chunks = [i \in DOMAIN s_ret.chunks |-> Chunk(s_ret.chunks[i])]
        /\ HYBRID.chunk_store = ChunkStore(s_ret.chunks)
        /\ IndexIds = DOMAIN HYBRID.chunk_store
        /\ \A i \in DOMAIN HYBRID.lex.chunks :
              HYBRID.chunk_store[HYBRID.lex.chunks[i].id].text = HYBRID.lex.chunks[i].text

(***************************************************************************)
(* Claims about the engine (checked under SpecEngine)                      *)
(***************************************************************************)
\* there is a file at bm25_path and the engine's load of it raises
LoadFails == lexFile.exists /\ EngineLoadIndex(EngineFreshIndex, lexFile).out.raised

\* the semantic ranking of the latest retrieve call of the engine
SemanticOfCall == retrieve_semantic(e_ret.env, e_ret.vmeta, e_ret.top_k)

\* C15: when the load of the snapshot raises at start-up and the API keys are
\* set, __init__ returns an engine without a lexical index; every retrieve of
\* that engine is semantic-only: it does not fuse, returns the first top_k
\* semantic hits with their scores, and raises only when the semantic query
\* raises.
C15_FailedLoadMeansSemanticOnly ==
    LoadFails =>
        /\ (e_ret.op = "init" /\ e_ret.keys_set) => (~e_ret.out.raised /\ ENGINE.constructed)
        /\ ENGINE.constructed => ENGINE.lex.is_none
        /\ e_ret.op = "retrieve" =>
              /\ e_ret.out.raised = SemanticOfCall.raised
              /\ ~e_ret.out.fused
              /\ e_ret.out.ranked = Pairs(Slice(SemanticOfCall.hits, e_ret.top_k))
              /\ Len(e_ret.out.hits) = Len(e_ret.out.ranked)
              /\ \A j \in DOMAIN e_ret.out.hits : e_ret.out.hits[j].score = e_ret.out.ranked[j][2]

\* an engine started over a snapshot that register_chunks wrote, whose load
\* raised, has returned semantic hits
C15_Witness ==
    /\ LoadFails
    /\ lexFile.cls = "hybrid_search.Chunk"
    /\ ENGINE.constructed
    /\ e_ret.op = "retrieve"
    /\ ~e_ret.out.raised
    /\ Len(e_ret.out.hits) >= 2

\* C20: serving queries leaves the engine's lexical index as load left it:
\* the stored chunk records with their metadata, the fitted model and the
\* id-to-index map.
C20_ServingLeavesIndexUnchanged ==
    ENGINE.constructed => ENGINE.lex = eng_loaded

\* the (id, score, metadata) list of the lexical side of the latest retrieve
\* call (the call's own assignment of "text" changes nothing when repeated)
LexicalOfCall == retrieve_lexical(ENGINE.lex, e_ret.query, e_ret.top_k).out

\* the metadata the lexical side returned for id: that of its first hit
LexicalMetaOf(id) ==
    LexicalOfCall[CHOOSE r \in DOMAIN LexicalOfCall :
                      /\ LexicalOfCall[r][1] = id
                      /\ \A q \in DOMAIN LexicalOfCall : LexicalOfCall[q][1] = id => r <= q][3]

\* C21: in a hybrid retrieve of the engine, a fused hit whose id the semantic
\* side returned with empty metadata and the lexical side returned with
\* metadata carries the text and the bank of the lexical side's metadata, not
\* the defaults.
C21_HitTakesMetadataOfSideThatHasIt ==
    (e_ret.op = "retrieve" /\ ~e_ret.out.raised /\ e_ret.out.fused) =>
        \A j \in DOMAIN e_ret.out.hits :
            LET id == e_ret.out.ranked[j][1]
            IN  (/\ e_ret.vmeta = EmptyMeta
                 /\ \E r \in DOMAIN SemanticOfCall.hits : SemanticOfCall.hits[r][1] = id
                 /\ \E r \in DOMAIN LexicalOfCall :
                       LexicalOfCall[r][1] = id /\ LexicalOfCall[r][3] # EmptyMeta) =>
                    /\ e_ret.out.hits[j].text = MetaGet(LexicalMetaOf(id), "text", <<>>)
                    /\ e_ret.out.hits[j].bank = MetaGet(LexicalMetaOf(id), "bank", "Unknown")

\* the same for the ids that only the lexical side returned
LexicalOnlyHitTakesLexicalMetadata ==
    (e_ret.op = "retrieve" /\ ~e_ret.out.raised /\ e_ret.out.fused) =>
        \A j \in DOMAIN e_ret.out.hits :
            LET id == e_ret.out.ranked[j][1]
            IN  (/\ \A r \in DOMAIN SemanticOfCall.hits : SemanticOfCall.hits[r][1] # id
                 /\ \E r \in DOMAIN LexicalOfCall : LexicalOfCall[r][1] = id) =>
                    /\ e_ret.out.hits[j].text = MetaGet(LexicalMetaOf(id), "text", <<>>)
                    /\ e_ret.out.hits[j].bank = MetaGet(LexicalMetaOf(id), "bank", "Unknown")

\* the file at bm25_path is a snapshot that register_chunks wrote
WrittenByRegisterChunks == lexFile.exists /\ lexFile.cls = "hybrid_search.Chunk"

\* the index of hybrid_search.py that wrote the snapshot
WriterIndex ==
    [bm25 |-> BM25Okapi(lexFile.doc_tokens), doc_tokens |-> lexFile.doc_tokens,
     chunks |-> lexFile.chunks, id_to_idx |-> IdToIdx(lexFile.chunks)]

\* C22: the engine loads a snapshot that register_chunks wrote without an
\* error, then runs in hybrid mode, and its lexical search returns for every
\* query and top_k the ids, order and scores of the index that wrote the
\* snapshot.
C22_EngineLoadsRegisteredSnapshot ==
    (WrittenByRegisterChunks /\ ENGINE.constructed) =>
        /\ ~LoadFails
        /\ ~ENGINE.lex.is_none
        /\ ENGINE.lex.bm25.fitted
        /\ \A query \in Queries, top_k \in TopKs :
              EngineLexSearch(ENGINE.lex, query, top_k) = LexSearch(WriterIndex, query, top_k)
        /\ (e_ret.op = "retrieve" /\ ~e_ret.out.raised) => e_ret.out.fused

\* the same for a snapshot of dict chunks, the schema the engine expects
EngineLoadsDictSnapshot ==
    (lexFile.exists /\ lexFile.cls = "dict" /\ ~BM25OkapiRaises(lexFile.doc_tokens)
        /\ ENGINE.constructed) =>
        /\ ~ENGINE.lex.is_none
        /\ \A query \in Queries, top_k \in TopKs :
              EngineLexSearch(ENGINE.lex, query, top_k) = LexSearch(WriterIndex, query, top_k)
=============================================================================
